---- MODULE Spec2Model ----
(***************************************************************************)
(* LogoCrawler (py/logocrawler/crawler.py): the per-domain fetch with its  *)
(* protocol / header fallback (fetchDomain), the ordered logo detection    *)
(* (parseLogoLink), the process-pool dispatcher (run) and the reports      *)
(* (exportResults, exportMetrics).                                         *)
(*                                                                         *)
(* The network is the environment: the outcome of every requests.get and  *)
(* requests.head call is an input chosen from a small set.                 *)
(***************************************************************************)
EXTENDS Integers, Sequences, FiniteSets, TLC

VARIABLES
    task,          \* FetchSpec: the local variables of one fetchDomain call
    det,           \* DetectSpec: one parseLogoLink call (input and output)
    domains_list,  \* self.domains_list
    threads_num,   \* self.threads_num
    pc,            \* position of the main process inside run()
    queue,         \* pool.map: index of the next task to hand to a worker
    worker,        \* pool.map: worker -> index of the task it runs (0: idle)
    slot,          \* pool.map: task index -> value returned by the task
    net,           \* task index -> the network behaviour the task met
    finished,      \* task indices in the order the tasks finished
    results,       \* the list pool.map returns
    rows,          \* the lines exportResults wrote
    metrics        \* what exportMetrics computed and wrote

vars == <<task, det, domains_list, threads_num, pc, queue, worker, slot, net,
          finished, results, rows, metrics>>

-----------------------------------------------------------------------------
(* Python values *)

\* Python's None where the variable otherwise holds a string
None == "<None>"

\* f"{v}": None is rendered as the text None, a string as itself
Format(v) == IF v = None THEN "None" ELSE v

\* response = None (crawler.py:220)
NoneResponse == [kind |-> "None"]

\* `if response:` -- None is false; requests.Response.__bool__ is Response.ok,
\* false for the error statuses 400..599
Truthy(response) ==
    /\ response.kind = "Response"
    /\ ~(response.status >= 400 /\ response.status < 600)

-----------------------------------------------------------------------------
(* Configuration: utils.py and the constructor *)

protocols == <<"https://www.", "http://www.", "www.">>

common_logo_paths ==
    <<"/logo.png", "/images/logo.png", "/static/logo.svg", "/assets/logo.png",
      "/img/logo.png">>

-----------------------------------------------------------------------------
(* Bounds and input alphabets *)

MaxDomains == 2

MaxThreads == 2

MaxResults == 3

Domains == {"a.com", "b.org"}

-----------------------------------------------------------------------------
(* URLs and references found in a page *)

\* response.url, the final URL of a response, split as urlparse splits it:
\* dir is the path up to and including its last "/"
BaseURLs ==
    { [scheme |-> "https", netloc |-> "www.a.com", dir |-> "/"],
      [scheme |-> "http", netloc |-> "www.b.org", dir |-> "/en/"] }

\* An attribute value that is used as a URL reference: the attribute may be
\* missing (tag.get returns None), empty, an absolute URL, a protocol-relative
\* URL, an absolute path or a relative path.
NoAttr    == [form |-> "none", text |-> None]
EmptyAttr == [form |-> "empty", text |-> ""]
AbsRef(u)  == [form |-> "abs", text |-> u]
NetRef(u)  == [form |-> "net", text |-> u]
PathRef(p) == [form |-> "path", text |-> p]
RelRef(r)  == [form |-> "rel", text |-> r]

\* `if content:` / `if src:` / `if href:` -- None and "" are false
HasValue(ref) == ref.form \notin {"none", "empty"}

\* urllib.parse.urljoin(base_url, ref)
urljoin(base, ref) ==
    CASE ref.form = "abs"  -> ref.text
      [] ref.form = "net"  -> base.scheme \o ":" \o ref.text
      [] ref.form = "path" -> base.scheme \o "://" \o base.netloc \o ref.text
      [] ref.form = "rel"  -> base.scheme \o "://" \o base.netloc \o base.dir \o ref.text
      [] OTHER             -> base.scheme \o "://" \o base.netloc \o base.dir

-----------------------------------------------------------------------------
(* Pages: what BeautifulSoup finds in response.text *)

\* the capital letters and their lower-case forms, place by place
upper_chars ==
    <<"A", "B", "C", "D", "E", "F", "G", "H", "I", "J", "K", "L", "M",
      "N", "O", "P", "Q", "R", "S", "T", "U", "V", "W", "X", "Y", "Z">>

lower_chars ==
    <<"a", "b", "c", "d", "e", "f", "g", "h", "i", "j", "k", "l", "m",
      "n", "o", "p", "q", "r", "s", "t", "u", "v", "w", "x", "y", "z">>

\* c.lower() on one character: a capital letter gives its lower-case form,
\* every other character of the pages (small letters, "-") is left as it is
LowerChar(ch) ==
    IF \E n \in 1..Len(upper_chars) : upper_chars[n] = ch
    THEN lower_chars[CHOOSE n \in 1..Len(upper_chars) : upper_chars[n] = ch]
    ELSE ch

\* s.lower(), s a sequence of characters
Lower(s) == [n \in 1..Len(s) |-> LowerChar(s[n])]

\* sub in s
Contains(s, sub) ==
    \E n \in 0..(Len(s) - Len(sub)) :
        \A m \in 1..Len(sub) : s[n + m] = sub[m]

logo_chars == <<"l", "o", "g", "o">>

icon_chars == <<"i", "c", "o", "n">>

\* <img id=... class="..." src=...>; class is the list of class names
Img(id, classes, src) == [id |-> id, class |-> classes, src |-> src]

\* <link rel="..." href=...>; rel is the list of rel values (<<>>: no rel)
Link(rel, href) == [rel |-> rel, href |-> href]

\* og: the content attributes of the <meta property="og:image"> tags,
\* imgs: the <img> tags, links: the <link> tags, each in document order
Page(og, imgs, links) == [og |-> og, imgs |-> imgs, links |-> links]

cls_logo   == <<"l", "o", "g", "o">>
cls_Logo   == <<"s", "-", "L", "O", "G", "O">>
cls_hero   == <<"h", "e", "r", "o">>
rel_icon   == <<"i", "c", "o", "n">>
rel_Icon   == <<"I", "c", "o", "n">>
rel_style  == <<"s", "t", "y", "l", "e">>
rel_short  == <<"s", "h", "o", "r", "t", "c", "u", "t">>

OgChoices ==
    { <<>>, <<EmptyAttr>>, <<NoAttr>>, <<PathRef("/brand.png")>>,
      <<EmptyAttr, PathRef("/second.png")>> }

ImgChoices ==
    { <<>>,
      <<Img("logo", <<>>, PathRef("/img/l.png"))>>,
      <<Img("Logo", <<cls_hero>>, RelRef("hero.png"))>>,
      <<Img(None, <<cls_hero>>, RelRef("hero.png")),
        Img(None, <<cls_hero, cls_Logo>>, AbsRef("https://cdn.x.com/l.svg"))>>,
      <<Img("logo", <<>>, NoAttr), Img(None, <<cls_logo>>, RelRef("second.png"))>>,
      <<Img("logo", <<>>, PathRef("/img/l.png")),
        Img(None, <<cls_logo>>, RelRef("second.png"))>> }

LinkChoices ==
    { <<>>,
      <<Link(<<rel_style>>, PathRef("/site.css"))>>,
      <<Link(<<rel_style>>, PathRef("/site.css")),
        Link(<<rel_short, rel_Icon>>, NetRef("//cdn.x.com/fav.ico"))>>,
      <<Link(<<rel_icon>>, EmptyAttr), Link(<<rel_icon>>, RelRef("fav.ico"))>> }

Pages == { Page(og, imgs, links) :
             og \in OgChoices, imgs \in ImgChoices, links \in LinkChoices }

EmptyPage == Page(<<>>, <<>>, <<>>)

\* the pages the fetch specification serves: one per detection outcome
FetchPages ==
    { EmptyPage,
      Page(<<PathRef("/brand.png")>>,
           <<Img("logo", <<>>, PathRef("/img/l.png"))>>, <<>>),
      Page(<<EmptyAttr>>, <<Img("logo", <<>>, PathRef("/img/l.png"))>>, <<>>),
      Page(<<>>, <<>>, <<Link(<<rel_icon>>, RelRef("fav.ico"))>>) }

-----------------------------------------------------------------------------
(* parseLogoLink (crawler.py:258-331) *)

\* the answers requests.head can give to one probe: a response with its
\* status code and Content-Type header ("" when the header is missing), or an
\* exception (a timeout, a connection error)
HeadResponse(status, ctype) == [kind |-> "Response", status |-> status, ctype |-> ctype]

HeadRaises == [kind |-> "raise", status |-> 0, ctype |-> ""]

ProbeResults ==
    { HeadResponse(200, "image/png"), HeadResponse(200, "text/html"),
      HeadResponse(404, "image/png"), HeadRaises }

\* 'image' in res.headers.get('Content-Type', '')
HasImage(ctype) == ctype \in {"image/png", "image/svg+xml", "image/x-icon"}

\* crawler.py:299
ProbeMatches(res) ==
    res.kind = "Response" /\ res.status = 200 /\ HasImage(res.ctype)

NoCall == [pc |-> "none"]

\* entry of parseLogoLink: soup and base_url are taken from the response
ParseStart(response) ==
    [pc |-> "probe", page |-> response.page, base_url |-> response.url,
     k |-> 1, heads |-> <<>>, logo_url |-> None, source |-> None]

\* ProbeStep in which an error of a probe ends the common-path strategy
ProbeStep_ErrorAborts(d, res) ==
    LET logo_url == urljoin(d.base_url, PathRef(common_logo_paths[d.k]))
        d1 == [d EXCEPT !.heads = Append(@, logo_url)]
    IN  IF res.kind = "raise"
        THEN [d1 EXCEPT !.pc = "tags"]
        ELSE IF ProbeMatches(res)
             THEN [d1 EXCEPT !.pc = "return", !.logo_url = logo_url,
                             !.source = "common_path"]
             ELSE IF d.k < Len(common_logo_paths)
                  THEN [d1 EXCEPT !.k = @ + 1]
                  ELSE [d1 EXCEPT !.pc = "tags"]

\* one iteration of `for path in common_logo_paths`, its HEAD request answered
\* by res
ProbeStep(d, res) ==
    LET logo_url == urljoin(d.base_url, PathRef(common_logo_paths[d.k]))
        d1 == [d EXCEPT !.heads = Append(@, logo_url)]
    IN  IF res.kind # "raise" /\ ProbeMatches(res)
        THEN [d1 EXCEPT !.pc = "return", !.logo_url = logo_url,
                        !.source = "common_path"]
        ELSE IF d.k < Len(common_logo_paths)
             THEN [d1 EXCEPT !.k = @ + 1]
             ELSE [d1 EXCEPT !.pc = "tags"]

\* the index at which a loop over a sequence returns: the least n with
\* hit[n], 0 when the loop runs to its end
FirstIndex(hit) ==
    LET hits == {n \in 1..Len(hit) : hit[n]}
    IN  IF hits = {} THEN 0 ELSE CHOOSE n \in hits : \A m \in hits : n <= m

\* og_image that returns the content attribute as it stands in the page
og_image_Unresolved(page, base_url) ==
    IF Len(page.og) > 0 /\ HasValue(page.og[1])
    THEN page.og[1].text
    ELSE None

\* crawler.py:305-310: the first og:image meta tag, when it has content
og_image(page, base_url) ==
    IF Len(page.og) > 0 /\ HasValue(page.og[1])
    THEN urljoin(base_url, page.og[1])
    ELSE None

\* crawler.py:316: id == 'logo' or 'logo' in some class, lower-cased
LogoFlagged(img) ==
    \/ img.id = "logo"
    \/ \E n \in 1..Len(img.class) : Contains(Lower(img.class[n]), logo_chars)

\* crawler.py:313-320: the first flagged <img> that has a src
ImgHit(img) == LogoFlagged(img) /\ HasValue(img.src)

\* img_logo that returns the last flagged <img> with a src instead of the first
img_logo_LastHit(page, base_url) ==
    LET hits == {m \in 1..Len(page.imgs) : ImgHit(page.imgs[m])}
    IN  IF hits = {} THEN None
        ELSE urljoin(base_url,
                     page.imgs[CHOOSE n \in hits : \A m \in hits : m <= n].src)

img_logo(page, base_url) ==
    LET n == FirstIndex([m \in 1..Len(page.imgs) |-> ImgHit(page.imgs[m])])
    IN  IF n = 0 THEN None ELSE urljoin(base_url, page.imgs[n].src)

\* crawler.py:323: rel=lambda x: x and 'icon' in x.lower(), tried on each
\* value of the rel attribute
IconRel(link) ==
    \E n \in 1..Len(link.rel) : Contains(Lower(link.rel[n]), icon_chars)

\* crawler.py:323-328: the first icon <link> that has an href
LinkHit(link) == IconRel(link) /\ HasValue(link.href)

favicon(page, base_url) ==
    LET n == FirstIndex([m \in 1..Len(page.links) |-> LinkHit(page.links[m])])
    IN  IF n = 0 THEN None ELSE urljoin(base_url, page.links[n].href)

\* TagsStep with the <img> strategy tried before the og:image strategy
TagsStep_ImgFirst(d) ==
    LET og  == og_image(d.page, d.base_url)
        img == img_logo(d.page, d.base_url)
        fav == favicon(d.page, d.base_url)
    IN  CASE img # None -> [d EXCEPT !.pc = "return", !.logo_url = img, !.source = "img_logo"]
          [] og # None  -> [d EXCEPT !.pc = "return", !.logo_url = og, !.source = "og_image"]
          [] fav # None -> [d EXCEPT !.pc = "return", !.logo_url = fav, !.source = "favicon"]
          [] OTHER      -> [d EXCEPT !.pc = "return", !.logo_url = None, !.source = "not_found"]

\* crawler.py:304-331: the strategies after the common paths, in order
TagsStep(d) ==
    LET og  == og_image(d.page, d.base_url)
        img == img_logo(d.page, d.base_url)
        fav == favicon(d.page, d.base_url)
    IN  CASE og # None  -> [d EXCEPT !.pc = "return", !.logo_url = og, !.source = "og_image"]
          [] img # None -> [d EXCEPT !.pc = "return", !.logo_url = img, !.source = "img_logo"]
          [] fav # None -> [d EXCEPT !.pc = "return", !.logo_url = fav, !.source = "favicon"]
          [] OTHER      -> [d EXCEPT !.pc = "return", !.logo_url = None, !.source = "not_found"]

\* the whole call, the five probes answered by probes[1..5]
RECURSIVE RunParse(_, _)
RunParse(d, probes) ==
    CASE d.pc = "probe" -> RunParse(ProbeStep(d, probes[d.k]), probes)
      [] d.pc = "tags"  -> RunParse(TagsStep(d), probes)
      [] OTHER          -> d

parseLogoLink(response, probes) == RunParse(ParseStart(response), probes)

-----------------------------------------------------------------------------
(* fetchDomain (crawler.py:198-256) *)

\* what requests.get can do: return a response, or raise. An exception of
\* requests may carry the response that caused it (TooManyRedirects does).
GetResponse(status, url, page) ==
    [kind |-> "Response", status |-> status, url |-> url, page |-> page]

GetRaises(name, response) == [kind |-> "raise", name |-> name, response |-> response]

OkResponses == { GetResponse(200, b, p) : b \in BaseURLs, p \in FetchPages }

BadResponses ==
    { GetResponse(404, [scheme |-> "https", netloc |-> "www.a.com", dir |-> "/"],
                  EmptyPage) }

\* requests.get on a URL without a scheme ("www." + domain): the request is
\* never sent, MissingSchema is raised while the URL is prepared
MissingSchema == GetRaises("MissingSchema", NoneResponse)

GetExceptions ==
    { GetRaises("ConnectionError", NoneResponse),
      GetRaises("ReadTimeout", NoneResponse),
      GetRaises("TooManyRedirects",
                GetResponse(302, [scheme |-> "https", netloc |-> "www.a.com",
                                  dir |-> "/"], EmptyPage)),
      MissingSchema }

GetOutcomes == OkResponses \cup BadResponses \cup GetExceptions

\* the scheme of the URLs built with a prefix of protocols, None when the
\* prefix has none
SchemeOf(protocol) ==
    CASE protocol = "https://www." -> "https"
      [] protocol = "http://www."  -> "http"
      [] OTHER                     -> None

\* what requests.get can do with protocol + domain: without a scheme it
\* raises MissingSchema, with one the network decides
AnswersTo(protocol) ==
    IF SchemeOf(protocol) = None
    THEN {MissingSchema}
    ELSE GetOutcomes \ {MissingSchema}

\* crawler.py:244-246
ExcReason(e) ==
    IF e.response # NoneResponse
    THEN ToString(e.response.status)
    ELSE "Error " \o e.name

NoResult == [pending |-> TRUE]

\* crawler.py:217-224
StartFetch(domain) ==
    [domain |-> domain, pc |-> "headed", i |-> 1, url |-> None,
     response |-> NoneResponse, header_type |-> None, last_exception |-> None,
     logo_link |-> None, message |-> "not_attempted", call |-> NoCall,
     gets |-> <<>>, result |-> NoResult]

\* crawler.py:248: leaving the loop, by break or by exhaustion
LoopExit(t) ==
    IF Truthy(t.response)
    THEN [t EXCEPT !.pc = "parse", !.call = ParseStart(t.response)]
    ELSE [t EXCEPT !.pc = "return"]

\* crawler.py:227: the next iteration of `for protocol in protocols`
NextProtocol(t) ==
    IF t.i < Len(protocols)
    THEN [t EXCEPT !.i = @ + 1, !.pc = "headed"]
    ELSE LoopExit(t)

\* one GET as the environment sees it
GetCall(url, mode, o) == [url |-> url, mode |-> mode, outcome |-> o]

\* HeadedGet with `continue` in the place of `break`: the loop goes on to the
\* next protocol after a successful headed GET
HeadedGet_NoBreak(t, o) ==
    LET url == protocols[t.i] \o t.domain
        t1  == [t EXCEPT !.url = url,
                         !.gets = Append(@, GetCall(url, "headed", o))]
    IN  IF o.kind = "raise"
        THEN NextProtocol([t1 EXCEPT !.last_exception = ExcReason(o)])
        ELSE IF Truthy(o)
             THEN NextProtocol([t1 EXCEPT !.response = o, !.header_type = "headed"])
             ELSE [t1 EXCEPT !.response = o, !.pc = "headless"]

\* HeadedGet with the headless GET also tried after a headed GET that raised
HeadedGet_HeadlessOnRaise(t, o) ==
    LET url == protocols[t.i] \o t.domain
        t1  == [t EXCEPT !.url = url,
                         !.gets = Append(@, GetCall(url, "headed", o))]
    IN  IF o.kind = "raise"
        THEN [t1 EXCEPT !.last_exception = ExcReason(o), !.pc = "headless"]
        ELSE IF Truthy(o)
             THEN LoopExit([t1 EXCEPT !.response = o, !.header_type = "headed"])
             ELSE [t1 EXCEPT !.response = o, !.pc = "headless"]

\* HeadedGet whose except clause keeps the reason of the first exception
HeadedGet_KeepFirstReason(t, o) ==
    LET url == protocols[t.i] \o t.domain
        t1  == [t EXCEPT !.url = url,
                         !.gets = Append(@, GetCall(url, "headed", o))]
    IN  IF o.kind = "raise"
        THEN NextProtocol([t1 EXCEPT !.last_exception =
                               IF @ = None THEN ExcReason(o) ELSE @])
        ELSE IF Truthy(o)
             THEN LoopExit([t1 EXCEPT !.response = o, !.header_type = "headed"])
             ELSE [t1 EXCEPT !.response = o, !.pc = "headless"]

\* HeadedGet without the except clause: the exception leaves fetchDomain
HeadedGet_Propagates(t, o) ==
    LET url == protocols[t.i] \o t.domain
        t1  == [t EXCEPT !.url = url,
                         !.gets = Append(@, GetCall(url, "headed", o))]
    IN  IF o.kind = "raise"
        THEN [t1 EXCEPT !.pc = "done", !.result = [raised |-> o.name]]
        ELSE IF Truthy(o)
             THEN LoopExit([t1 EXCEPT !.response = o, !.header_type = "headed"])
             ELSE [t1 EXCEPT !.response = o, !.pc = "headless"]

\* crawler.py:228-235, 243-246: url = protocol + domain and the headed GET,
\* answered by o
HeadedGet(t, o) ==
    LET url == protocols[t.i] \o t.domain
        t1  == [t EXCEPT !.url = url,
                         !.gets = Append(@, GetCall(url, "headed", o))]
    IN  IF o.kind = "raise"
        THEN NextProtocol([t1 EXCEPT !.last_exception = ExcReason(o)])
        ELSE IF Truthy(o)
             THEN LoopExit([t1 EXCEPT !.response = o, !.header_type = "headed"])
             ELSE [t1 EXCEPT !.response = o, !.pc = "headless"]

\* HeadlessGet that records the kind of the first attempt of the prefix
HeadlessGet_WrongType(t, o) ==
    LET t1 == [t EXCEPT !.gets = Append(@, GetCall(t.url, "headless", o))]
    IN  IF o.kind = "raise"
        THEN NextProtocol([t1 EXCEPT !.last_exception = ExcReason(o)])
        ELSE IF Truthy(o)
             THEN LoopExit([t1 EXCEPT !.response = o, !.header_type = "headed"])
             ELSE NextProtocol([t1 EXCEPT !.response = o])

\* HeadlessGet that tries the first prefix a second time when its headless GET
\* was answered with an error status
HeadlessGet_RetryPrefix(t, o) ==
    LET t1 == [t EXCEPT !.gets = Append(@, GetCall(t.url, "headless", o))]
    IN  IF o.kind = "raise"
        THEN NextProtocol([t1 EXCEPT !.last_exception = ExcReason(o)])
        ELSE IF Truthy(o)
             THEN LoopExit([t1 EXCEPT !.response = o, !.header_type = "headless"])
             ELSE IF Len(t1.gets) = 2
                  THEN [t1 EXCEPT !.response = o, !.pc = "headed"]
                  ELSE NextProtocol([t1 EXCEPT !.response = o])

\* crawler.py:236-246: the headless GET to the same url, answered by o
HeadlessGet(t, o) ==
    LET t1 == [t EXCEPT !.gets = Append(@, GetCall(t.url, "headless", o))]
    IN  IF o.kind = "raise"
        THEN NextProtocol([t1 EXCEPT !.last_exception = ExcReason(o)])
        ELSE IF Truthy(o)
             THEN LoopExit([t1 EXCEPT !.response = o, !.header_type = "headless"])
             ELSE NextProtocol([t1 EXCEPT !.response = o])

\* crawler.py:249: logo_link, message = self.parseLogoLink(response)
ParseReturn(t) ==
    [t EXCEPT !.logo_link = t.call.logo_url, !.message = t.call.source,
              !.pc = "return"]

\* DomainResult with success taken from the fetch instead of the logo link
DomainResult_SuccessOnFetch(t) ==
    [url          |-> IF Truthy(t.response) THEN t.url ELSE t.domain,
     logo_link    |-> Format(t.logo_link),
     success      |-> Truthy(t.response),
     request_type |-> IF Truthy(t.response) THEN t.header_type ELSE None,
     message      |-> IF t.logo_link # None THEN t.message
                      ELSE Format(t.last_exception)]

\* DomainResult with an empty logo link when no logo was found, as the
\* docstring of fetchDomain words it
DomainResult_EmptyLogo(t) ==
    [url          |-> IF Truthy(t.response) THEN t.url ELSE t.domain,
     logo_link    |-> IF t.logo_link = None THEN "" ELSE t.logo_link,
     success      |-> t.logo_link # None,
     request_type |-> IF Truthy(t.response) THEN t.header_type ELSE None,
     message      |-> IF t.logo_link # None THEN t.message
                      ELSE Format(t.last_exception)]

\* DomainResult that reports the URL tried last, whether it answered or not
DomainResult_UrlAlways(t) ==
    [url          |-> t.url,
     logo_link    |-> Format(t.logo_link),
     success      |-> t.logo_link # None,
     request_type |-> IF Truthy(t.response) THEN t.header_type ELSE None,
     message      |-> IF t.logo_link # None THEN t.message
                      ELSE Format(t.last_exception)]

\* crawler.py:251-256: the dictionary fetchDomain returns
DomainResult(t) ==
    [url          |-> IF Truthy(t.response) THEN t.url ELSE t.domain,
     logo_link    |-> Format(t.logo_link),
     success      |-> t.logo_link # None,
     request_type |-> IF Truthy(t.response) THEN t.header_type ELSE None,
     message      |-> IF t.logo_link # None THEN t.message
                      ELSE Format(t.last_exception)]

ReturnResult(t) == [t EXCEPT !.pc = "done", !.result = DomainResult(t)]

-----------------------------------------------------------------------------
(* One call of fetchDomain, step by step, every network answer possible *)

dispatcher == <<domains_list, threads_num, pc, queue, worker, slot, net,
                finished, results, rows, metrics>>

\* the dispatcher at rest, for the specifications of the single functions
DispatcherOff ==
    /\ domains_list = <<>>
    /\ threads_num = 1
    /\ pc = "off"
    /\ queue = 1
    /\ worker = <<0>>
    /\ slot = <<>>
    /\ net = <<>>
    /\ finished = <<>>
    /\ results = <<>>
    /\ rows = <<>>
    /\ metrics = NoResult

NoTask == [pc |-> "off"]

NoDetect == [call |-> NoCall, answers |-> <<>>]

FetchInit ==
    /\ task \in {StartFetch(d) : d \in Domains}
    /\ det = NoDetect
    /\ DispatcherOff

FetchHeaded ==
    /\ task.pc = "headed"
    /\ \E o \in AnswersTo(protocols[task.i]) : task' = HeadedGet(task, o)
    /\ UNCHANGED <<det, dispatcher>>

FetchHeadless ==
    /\ task.pc = "headless"
    /\ \E o \in AnswersTo(protocols[task.i]) : task' = HeadlessGet(task, o)
    /\ UNCHANGED <<det, dispatcher>>

FetchProbe ==
    /\ task.pc = "parse"
    /\ task.call.pc = "probe"
    /\ \E res \in ProbeResults :
           task' = [task EXCEPT !.call = ProbeStep(task.call, res)]
    /\ UNCHANGED <<det, dispatcher>>

FetchTags ==
    /\ task.pc = "parse"
    /\ task.call.pc = "tags"
    /\ task' = [task EXCEPT !.call = TagsStep(task.call)]
    /\ UNCHANGED <<det, dispatcher>>

FetchParseReturn ==
    /\ task.pc = "parse"
    /\ task.call.pc = "return"
    /\ task' = ParseReturn(task)
    /\ UNCHANGED <<det, dispatcher>>

FetchReturn ==
    /\ task.pc = "return"
    /\ task' = ReturnResult(task)
    /\ UNCHANGED <<det, dispatcher>>

FetchNext ==
    \/ FetchHeaded
    \/ FetchHeadless
    \/ FetchProbe
    \/ FetchTags
    \/ FetchParseReturn
    \/ FetchReturn

FetchSpec == FetchInit /\ [][FetchNext]_vars

\* every network call returns or times out (timeout=self.timeout_time at lines
\* 232 and 237, timeout=5 at line 298), so the call goes on while it can
FairFetchSpec == FetchSpec /\ WF_vars(FetchNext)

-----------------------------------------------------------------------------
(* One call of parseLogoLink, step by step *)

\* det.call is the call, det.answers what each of its HEAD requests was
\* answered
DetectInit ==
    /\ det \in {[call |-> ParseStart(GetResponse(200, b, p)), answers |-> <<>>] :
                    b \in BaseURLs, p \in Pages}
    /\ task = NoTask
    /\ DispatcherOff

DetectProbe ==
    /\ det.call.pc = "probe"
    /\ \E res \in ProbeResults :
           det' = [call |-> ProbeStep(det.call, res),
                   answers |-> Append(det.answers, res)]
    /\ UNCHANGED <<task, dispatcher>>

DetectTags ==
    /\ det.call.pc = "tags"
    /\ det' = [det EXCEPT !.call = TagsStep(det.call)]
    /\ UNCHANGED <<task, dispatcher>>

DetectNext == DetectProbe \/ DetectTags

DetectSpec == DetectInit /\ [][DetectNext]_vars

-----------------------------------------------------------------------------
(* The whole of fetchDomain for one network behaviour *)

\* a network behaviour: gets[i] = <<answer to the headed GET, answer to the
\* headless GET>> for protocol i, probes[k] = answer to the HEAD of path k
Behaviour(gets, probes) == [gets |-> gets, probes |-> probes]

RECURSIVE RunTask(_, _)
RunTask(t, env) ==
    CASE t.pc = "headed"   -> RunTask(HeadedGet(t, env.gets[t.i][1]), env)
      [] t.pc = "headless" -> RunTask(HeadlessGet(t, env.gets[t.i][2]), env)
      [] t.pc = "parse" /\ t.call.pc = "probe" ->
             RunTask([t EXCEPT !.call = ProbeStep(t.call, env.probes[t.call.k])], env)
      [] t.pc = "parse" /\ t.call.pc = "tags" ->
             RunTask([t EXCEPT !.call = TagsStep(t.call)], env)
      [] t.pc = "parse" /\ t.call.pc = "return" -> RunTask(ParseReturn(t), env)
      [] t.pc = "return"   -> RunTask(ReturnResult(t), env)
      [] OTHER             -> t

fetchDomain(domain, env) == RunTask(StartFetch(domain), env).result

SiteA == [scheme |-> "https", netloc |-> "www.a.com", dir |-> "/"]

Refused == GetRaises("ConnectionError", NoneResponse)

TimedOut == GetRaises("ReadTimeout", NoneResponse)

NotFound404 == GetResponse(404, SiteA, EmptyPage)

OgPage == Page(<<PathRef("/brand.png")>>,
               <<Img("logo", <<>>, PathRef("/img/l.png"))>>, <<>>)

AllProbes(res) == [k \in 1..Len(common_logo_paths) |-> res]

\* the answers to the GETs of a task: first and second are the pairs
\* <<headed, headless>> of the two prefixes that have a scheme, the GET of the
\* prefix without a scheme raises MissingSchema
Gets(first, second) ==
    [i \in 1..Len(protocols) |->
        IF SchemeOf(protocols[i]) = None THEN <<MissingSchema, MissingSchema>>
        ELSE IF i = 1 THEN first ELSE second]

\* the network behaviours the dispatcher's tasks can meet: an unreachable
\* domain, a domain that answers every GET with an error status, a page with
\* an og:image, a page without any logo served to the headless GET only, a
\* common-path logo found after a timeout and a failed probe, and a page with
\* an og:image served to the headless GET only
Behaviours ==
    << Behaviour(Gets(<<Refused, Refused>>, <<Refused, Refused>>),
                 AllProbes(HeadRaises)),
       Behaviour(Gets(<<NotFound404, NotFound404>>, <<NotFound404, NotFound404>>),
                 AllProbes(HeadRaises)),
       Behaviour(Gets(<<GetResponse(200, SiteA, OgPage), Refused>>,
                      <<GetResponse(200, SiteA, OgPage), Refused>>),
                 AllProbes(HeadResponse(404, "text/html"))),
       Behaviour(Gets(<<NotFound404, GetResponse(200, SiteA, EmptyPage)>>,
                      <<NotFound404, GetResponse(200, SiteA, EmptyPage)>>),
                 AllProbes(HeadResponse(200, "text/html"))),
       Behaviour(Gets(<<TimedOut, TimedOut>>,
                      <<GetResponse(200, SiteA, EmptyPage), Refused>>),
                 [k \in 1..Len(common_logo_paths) |->
                     IF k < 3 THEN HeadRaises ELSE HeadResponse(200, "image/png")]),
       Behaviour(Gets(<<NotFound404, GetResponse(200, SiteA, OgPage)>>,
                      <<NotFound404, GetResponse(200, SiteA, OgPage)>>),
                 AllProbes(HeadResponse(404, "text/html"))) >>

-----------------------------------------------------------------------------
(* exportResults (crawler.py:333-365) *)

\* f"{b}" for a bool
BoolStr(b) == IF b THEN "True" ELSE "False"

\* crawler.py:365: one line of the CSV (request_type None is written None)
ResultRow(r) ==
    r.url \o ", " \o BoolStr(r.success) \o ", \"" \o r.logo_link \o "\", "
          \o Format(r.request_type) \o ", \"" \o r.message \o "\"\n"

\* crawler.py:362-365
exportResults(res) ==
    <<"url, success, logo_link, request_type, message\n">>
        \o [n \in 1..Len(res) |-> ResultRow(res[n])]

-----------------------------------------------------------------------------
(* exportMetrics (crawler.py:367-446) *)

\* sum(1 for r in results if ...), flags[n] telling whether results[n] counts
CountTrue(flags) == Cardinality({n \in 1..Len(flags) : flags[n]})

IsSuccess(r) == r.success

IsFailure(r) == ~r.success

IsHeaded(r) == r.request_type = "headed"

IsHeadless(r) == r.request_type = "headless"

\* IsFailedRequest that counts the results without a logo
IsFailedRequest_NoLogo(r) == ~r.success

IsFailedRequest(r) == r.request_type = None

\* crawler.py:398
total_requests(res) == Len(res)

\* crawler.py:399
successful_requests(res) == CountTrue([n \in 1..Len(res) |-> IsSuccess(res[n])])

\* crawler.py:400
failed_requests(res) == total_requests(res) - successful_requests(res)

\* d[key] = d.get(key, 0) + 1 on a dict, which keeps its keys in the order
\* of their first insertion: a sequence of <<key, count>>
Increment(table, key) ==
    IF \E n \in 1..Len(table) : table[n][1] = key
    THEN [n \in 1..Len(table) |->
             IF table[n][1] = key THEN <<key, table[n][2] + 1>> ELSE table[n]]
    ELSE Append(table, <<key, 1>>)

\* the messages of res counted in the order of res, starting from table
RECURSIVE MessageTable(_, _)
MessageTable(res, table) ==
    IF res = <<>> THEN table
    ELSE MessageTable(Tail(res), Increment(table, Head(res).message))

\* crawler.py:403-407
success_types(res) == MessageTable(SelectSeq(res, IsSuccess), <<>>)

\* crawler.py:410-414
error_types(res) == MessageTable(SelectSeq(res, IsFailure), <<>>)

\* SortedByCount by a sort that is not stable: an item goes ahead of the items
\* of equal count
RECURSIVE SortedByCount_Unstable(_)
SortedByCount_Unstable(table) ==
    IF table = <<>> THEN <<>>
    ELSE LET rest == SortedByCount_Unstable(SubSeq(table, 1, Len(table) - 1))
             item == table[Len(table)]
             ahead == {n \in 1..Len(rest) : rest[n][2] > item[2]}
             at == Cardinality(ahead)
         IN  SubSeq(rest, 1, at) \o <<item>> \o SubSeq(rest, at + 1, Len(rest))

\* sorted(items, key=lambda x: x[1], reverse=True): descending by count, and
\* stable, so items of equal count keep their order
RECURSIVE SortedByCount(_)
SortedByCount(table) ==
    IF table = <<>> THEN <<>>
    ELSE LET rest == SortedByCount(SubSeq(table, 1, Len(table) - 1))
             item == table[Len(table)]
             ahead == {n \in 1..Len(rest) : rest[n][2] >= item[2]}
             at == Cardinality(ahead)
         IN  SubSeq(rest, 1, at) \o <<item>> \o SubSeq(rest, at + 1, Len(rest))

\* Floating-point numbers (IEEE 754 binary64, the float of Python) as a pair:
\* m, the binary digits of a whole number, most significant first, and e, the
\* power of two that digit m[Len(m)] stands for. The digits are kept in a
\* sequence because a significand has 53 of them; the arithmetic below works
\* on them eight at a time.
mantissa_bits == 53
byte_bits == 8
byte_base == 256
quotient_bytes == 10

\* 2^j
RECURSIVE TwoTo(_)
TwoTo(j) == IF j = 0 THEN 1 ELSE 2 * TwoTo(j - 1)

\* the number a short run of binary digits stands for
RECURSIVE IntOf(_)
IntOf(bits) ==
    IF bits = <<>> THEN 0
    ELSE 2 * IntOf(SubSeq(bits, 1, Len(bits) - 1)) + bits[Len(bits)]

Reverse(s) == [i \in 1..Len(s) |-> s[Len(s) + 1 - i]]

Zeros(n) == [i \in 1..n |-> 0]

\* the binary digits of a run of bytes, most significant first
BitsOf(bytes) ==
    [i \in 1..(byte_bits * Len(bytes)) |->
        (bytes[(i - 1) \div byte_bits + 1]
            \div TwoTo(byte_bits - 1 - ((i - 1) % byte_bits))) % 2]

\* the bytes of a run of binary digits, least significant first
BytesOf(bits) ==
    LET n      == (Len(bits) + byte_bits - 1) \div byte_bits
        padded == Zeros(byte_bits * n - Len(bits)) \o bits
    IN  [i \in 1..n |->
            IntOf(SubSeq(padded, byte_bits * (n - i) + 1,
                                 byte_bits * (n - i) + byte_bits))]

\* the digits from the first 1 on
Strip(bits) ==
    IF \A i \in 1..Len(bits) : bits[i] = 0 THEN <<>>
    ELSE SubSeq(bits,
                CHOOSE i \in 1..Len(bits) :
                    bits[i] = 1 /\ \A k \in 1..(i - 1) : bits[k] = 0,
                Len(bits))

\* the whole number after bits: one digit longer when all digits are 1
AddOne(bits) ==
    IF \A i \in 1..Len(bits) : bits[i] = 1 THEN <<1>> \o Zeros(Len(bits))
    ELSE LET p == CHOOSE i \in 1..Len(bits) :
                      bits[i] = 0 /\ \A k \in (i + 1)..Len(bits) : bits[k] = 1
         IN  [i \in 1..Len(bits) |->
                 IF i < p THEN bits[i] ELSE IF i = p THEN 1 ELSE 0]

\* round to nearest, halves to even: kept are the digits that stay, rest the
\* digits that go, sticky says that something nonzero follows rest
Nearest(kept, rest, sticky) ==
    LET up == /\ rest # <<>>
              /\ rest[1] = 1
              /\ \/ sticky
                 \/ \E i \in 2..Len(rest) : rest[i] = 1
                 \/ kept[Len(kept)] = 1
    IN  IF up THEN AddOne(kept) ELSE kept

\* long division of r by t, 0 <= r < t: the first `left` bytes of the quotient
\* after the point, and what remains
RECURSIVE QuotientBytes(_, _, _)
QuotientBytes(r, t, left) ==
    IF left = 0 THEN [bytes |-> <<>>, rem |-> r]
    ELSE LET rest == QuotientBytes((r * byte_base) % t, t, left - 1)
         IN  [rest EXCEPT !.bytes = <<(r * byte_base) \div t>> \o @]

\* the least j with count < total * 2^j
RECURSIVE BinaryScale(_, _)
BinaryScale(count, total) ==
    IF count < total THEN 0 ELSE 1 + BinaryScale(count, 2 * total)

\* count / total on two ints, 0 < count and total < 2^22: the float nearest
\* to the quotient
FloatDiv(count, total) ==
    LET j     == BinaryScale(count, total)
        t     == total * TwoTo(j)
        d     == QuotientBytes(count, t, quotient_bytes)
        all   == BitsOf(d.bytes)
        zeros == Len(all) - Len(Strip(all))
    IN  [m |-> Nearest(SubSeq(all, zeros + 1, zeros + mantissa_bits),
                       SubSeq(all, zeros + mantissa_bits + 1, Len(all)),
                       d.rem # 0),
         e |-> j - zeros - mantissa_bits]

\* bytes * k for a small k, least significant byte first, carry by carry
RECURSIVE TimesBytes(_, _, _)
TimesBytes(bytes, k, carry) ==
    IF bytes = <<>>
    THEN IF carry = 0 THEN <<>>
         ELSE <<carry % byte_base>> \o TimesBytes(<<>>, k, carry \div byte_base)
    ELSE LET d == Head(bytes) * k + carry
         IN  <<d % byte_base>> \o TimesBytes(Tail(bytes), k, d \div byte_base)

\* bits * k, exactly
Times(bits, k) == Strip(BitsOf(Reverse(TimesBytes(BytesOf(bits), k, 0))))

\* x * k on a float and a small int: the exact product brought back to 53
\* significant digits
FloatTimes(x, k) ==
    LET p    == Times(x.m, k)
        drop == IF Len(p) > mantissa_bits THEN Len(p) - mantissa_bits ELSE 0
    IN  [m |-> Nearest(SubSeq(p, 1, Len(p) - drop),
                       SubSeq(p, Len(p) - drop + 1, Len(p)), FALSE),
         e |-> x.e + drop]

\* the whole number nearest to m * 2^e, e < 0, halves to even: what the
\* format :.2f does with the digits after the second decimal
RoundHalfEven(m, e) ==
    LET cut  == IF Len(m) > -e THEN Len(m) + e ELSE 0
        frac == Zeros(-e - (Len(m) - cut)) \o SubSeq(m, cut + 1, Len(m))
        int  == <<0>> \o SubSeq(m, 1, cut)
    IN  IntOf(Nearest(int, frac, FALSE))

\* f"{count / total * 100:.2f}" in hundredths of a percent: count / total is
\* a float, its product with 100 is a float, and the format writes the
\* two-decimal number nearest to that float; total is not 0
FloatPercent(count, total) ==
    IF count = 0 THEN 0
    ELSE LET percentage == FloatTimes(FloatDiv(count, total), 100)
         IN  RoundHalfEven(Times(percentage.m, 100), percentage.e)

\* the totals the bounded runs divide by
MaxTotal == IF MaxResults > MaxDomains THEN MaxResults ELSE MaxDomains

\* the percentages of the bounded runs, worked out once
PercentTable ==
    [total \in 1..MaxTotal |->
        [count \in 0..total |-> FloatPercent(count, total)]]

Percent(count, total) ==
    IF total \in DOMAIN PercentTable /\ count \in DOMAIN PercentTable[total]
    THEN PercentTable[total][count]
    ELSE FloatPercent(count, total)

\* crawler.py:429 and 435: guarded against a zero denominator
PercentOf(count, part) == IF part > 0 THEN Percent(count, part) ELSE 0

\* crawler.py:428-431 and 434-437: the lines of one breakdown
Breakdown(table, part, total) ==
    [n \in 1..Len(table) |->
        [message |-> table[n][1], count |-> table[n][2],
         percent_of_part |-> PercentOf(table[n][2], part),
         percent_of_total |-> Percent(table[n][2], total)]]

\* crawler.py:397-446 for a non-empty result list
Metrics(res) ==
    LET total == total_requests(res)
        successful == successful_requests(res)
        failed == failed_requests(res)
    IN  [total_requests |-> total,
         successful_requests |-> successful,
         successful_percent |-> Percent(successful, total),
         failed_requests |-> failed,
         failed_percent |-> Percent(failed, total),
         success_breakdown |->
             Breakdown(SortedByCount(success_types(res)), successful, total),
         failure_breakdown |->
             Breakdown(SortedByCount(error_types(res)), failed, total),
         headed_requests |-> CountTrue([n \in 1..Len(res) |-> IsHeaded(res[n])]),
         headed_percent |-> Percent(CountTrue([n \in 1..Len(res) |-> IsHeaded(res[n])]), total),
         headless_requests |-> CountTrue([n \in 1..Len(res) |-> IsHeadless(res[n])]),
         headless_percent |-> Percent(CountTrue([n \in 1..Len(res) |-> IsHeadless(res[n])]), total),
         failed_req_count |-> CountTrue([n \in 1..Len(res) |-> IsFailedRequest(res[n])]),
         failed_req_percent |-> Percent(CountTrue([n \in 1..Len(res) |-> IsFailedRequest(res[n])]), total)]

\* what the metrics file holds when line 424 divides by a total of zero: the
\* first line was written, then ZeroDivisionError is raised
MetricsCrash == [total_requests |-> 0, raised |-> "ZeroDivisionError"]

-----------------------------------------------------------------------------
(* run (crawler.py:90-113): Pool(processes=threads_num).map(fetchDomain, ...) *)

\* CollectResults in the order in which the tasks finished (an unordered map)
CollectResults_ByCompletion(slots, order) ==
    [n \in 1..Len(slots) |-> slots[order[n]]]

\* pool.map returns the values in the order of the input, whatever the order
\* in which the tasks finished
CollectResults(slots, order) == [n \in 1..Len(slots) |-> slots[n]]

Init ==
    /\ \E n \in 0..MaxDomains : domains_list \in [1..n -> Domains]
    /\ threads_num \in 1..MaxThreads
    /\ pc = "run"
    /\ queue = 1
    /\ worker = [w \in 1..threads_num |-> 0]
    /\ slot = [n \in 1..Len(domains_list) |-> NoResult]
    /\ net = [n \in 1..Len(domains_list) |-> 0]
    /\ finished = <<>>
    /\ results = <<>>
    /\ rows = <<>>
    /\ metrics = NoResult
    /\ task = NoTask
    /\ det = NoDetect

\* crawler.py:100-103: the pool is created and the tasks are submitted
RunStart ==
    /\ pc = "run"
    /\ pc' = "map"
    /\ UNCHANGED <<task, det, domains_list, threads_num, queue, worker, slot,
                   net, finished, results, rows, metrics>>

\* an idle worker takes the next task of the queue
WorkerTake(w) ==
    /\ pc = "map"
    /\ worker[w] = 0
    /\ queue <= Len(domains_list)
    /\ worker' = [worker EXCEPT ![w] = queue]
    /\ queue' = queue + 1
    /\ UNCHANGED <<task, det, domains_list, threads_num, pc, slot, net,
                   finished, results, rows, metrics>>

\* the value of fetchDomain(d) under behaviour b, for every domain and
\* behaviour
TaskValue ==
    [d \in Domains |->
        [b \in 1..Len(Behaviours) |-> fetchDomain(d, Behaviours[b])]]

\* WorkerFinish in which the workers share one "current domain", the one handed
\* out last, instead of each task carrying its own argument
WorkerFinish_SharedDomain(w) ==
    /\ pc = "map"
    /\ worker[w] # 0
    /\ \E b \in 1..Len(Behaviours) :
           /\ slot' = [slot EXCEPT ![worker[w]] =
                           TaskValue[domains_list[queue - 1]][b]]
           /\ net' = [net EXCEPT ![worker[w]] = b]
    /\ finished' = Append(finished, worker[w])
    /\ worker' = [worker EXCEPT ![w] = 0]
    /\ UNCHANGED <<task, det, domains_list, threads_num, pc, queue, results,
                   rows, metrics>>

\* a worker finishes fetchDomain(domain) under some network behaviour and
\* hands the value back
WorkerFinish(w) ==
    /\ pc = "map"
    /\ worker[w] # 0
    /\ \E b \in 1..Len(Behaviours) :
           /\ slot' = [slot EXCEPT ![worker[w]] =
                           TaskValue[domains_list[worker[w]]][b]]
           /\ net' = [net EXCEPT ![worker[w]] = b]
    /\ finished' = Append(finished, worker[w])
    /\ worker' = [worker EXCEPT ![w] = 0]
    /\ UNCHANGED <<task, det, domains_list, threads_num, pc, queue, results,
                   rows, metrics>>

\* MapReturn that does not wait for the workers (an asynchronous map whose
\* values are read at once)
MapReturn_NoWait ==
    /\ pc = "map"
    /\ queue > Len(domains_list)
    /\ pc' = "exportResults"
    /\ results' = CollectResults(slot, finished)
    /\ UNCHANGED <<task, det, domains_list, threads_num, queue, worker, slot,
                   net, finished, rows, metrics>>

\* crawler.py:103: map returns when every task has finished; an exception
\* raised by a task is raised again by map
MapReturn ==
    /\ pc = "map"
    /\ queue > Len(domains_list)
    /\ \A w \in 1..threads_num : worker[w] = 0
    /\ IF \E n \in 1..Len(slot) : "raised" \in DOMAIN slot[n]
       THEN pc' = "raised" /\ UNCHANGED results
       ELSE pc' = "exportResults" /\ results' = CollectResults(slot, finished)
    /\ UNCHANGED <<task, det, domains_list, threads_num, queue, worker, slot,
                   net, finished, rows, metrics>>

\* crawler.py:104
ExportResults ==
    /\ pc = "exportResults"
    /\ rows' = exportResults(results)
    /\ pc' = "exportMetrics"
    /\ UNCHANGED <<task, det, domains_list, threads_num, queue, worker, slot,
                   net, finished, results, metrics>>

\* crawler.py:105: with no result, line 424 divides by zero
ExportMetrics ==
    /\ pc = "exportMetrics"
    /\ IF total_requests(results) = 0
       THEN metrics' = MetricsCrash /\ pc' = "ZeroDivisionError"
       ELSE metrics' = Metrics(results) /\ pc' = "done"
    /\ UNCHANGED <<task, det, domains_list, threads_num, queue, worker, slot,
                   net, finished, results, rows>>

Next ==
    \/ RunStart
    \/ \E w \in 1..threads_num : WorkerTake(w)
    \/ \E w \in 1..threads_num : WorkerFinish(w)
    \/ MapReturn
    \/ ExportResults
    \/ ExportMetrics

Spec == Init /\ [][Next]_vars

\* the main process and every worker process keep running, and every network
\* call returns or times out (timeout=self.timeout_time): reading the list,
\* taking a task, finishing a task and returning from map happen when they can
FairSpec ==
    /\ Spec
    /\ WF_vars(RunStart)
    /\ WF_vars(\E w \in 1..threads_num : WorkerTake(w))
    /\ WF_vars(\E w \in 1..threads_num : WorkerFinish(w))
    /\ WF_vars(MapReturn)

-----------------------------------------------------------------------------
(* The reports for any result list *)

\* rows as fetchDomain builds them: a logo found on a fetched page; no page
\* fetched, where the last GET is the one without a scheme; a page fetched at
\* the first prefix without a logo, where no exception was met, or at the
\* second prefix, after an exception at the first
ResultUniverse ==
    { [url |-> "https://www.a.com", logo_link |-> "https://www.a.com/logo.png",
       success |-> TRUE, request_type |-> rt, message |-> m] :
          rt \in {"headed", "headless"}, m \in {"common_path", "og_image"} }
    \cup
    { [url |-> "a.com", logo_link |-> "None", success |-> FALSE,
       request_type |-> None, message |-> "Error MissingSchema"] }
    \cup
    { [url |-> "https://www.a.com", logo_link |-> "None", success |-> FALSE,
       request_type |-> rt, message |-> "None"] : rt \in {"headed", "headless"} }
    \cup
    { [url |-> "http://www.a.com", logo_link |-> "None", success |-> FALSE,
       request_type |-> rt, message |-> m] :
          rt \in {"headed", "headless"}, m \in {"Error ConnectionError", "302"} }

AggInit ==
    /\ \E n \in 0..MaxResults : results \in [1..n -> ResultUniverse]
    /\ pc = "exportResults"
    /\ domains_list = <<>>
    /\ threads_num = 1
    /\ queue = 1
    /\ worker = <<0>>
    /\ slot = <<>>
    /\ net = <<>>
    /\ finished = <<>>
    /\ rows = <<>>
    /\ metrics = NoResult
    /\ task = NoTask
    /\ det = NoDetect

AggNext == ExportResults \/ ExportMetrics

AggSpec == AggInit /\ [][AggNext]_vars

-----------------------------------------------------------------------------
(* Claims about fetchDomain, checked under FetchSpec *)

\* an attempt that did not give a response the code accepts
Failed(g) == ~Truthy(g.outcome)

\* the failure an attempt reports: the reason of its exception, or the
\* status of its error response
AttemptReason(o) ==
    IF o.kind = "raise" THEN ExcReason(o) ELSE ToString(o.status)

FetchDone == task.pc = "done"

PageFetched == \E n \in 1..Len(task.gets) : Truthy(task.gets[n].outcome)

\* C2: when a page was fetched and no detection strategy matched, the result
\* has success = false and message = "not_found", whatever failed before.
C2_NotFoundMessage ==
    (FetchDone /\ PageFetched /\ task.call.source = "not_found")
        => /\ task.result.success = FALSE
           /\ task.result.message = "not_found"

\* C3: success is true exactly when the logo link is present and the request
\* type is not none.
C3_SuccessIffLogoAndRequest ==
    FetchDone =>
        (task.result.success <=>
            (task.result.logo_link # "None" /\ task.result.request_type # None))

C3_Witness ==
    /\ FetchDone
    /\ task.result.success
    /\ task.result.request_type = "headless"
    /\ task.result.logo_link # "None"

\* C5: when no attempt gave a usable response, success = false, requestType is
\* none and the message is the failure reason of the last failed attempt,
\* whatever the reasons of the failures before it.
C5_LastFailureReason ==
    (FetchDone /\ ~PageFetched)
        => /\ task.result.success = FALSE
           /\ task.result.request_type = None
           /\ task.result.message =
                  AttemptReason(task.gets[Len(task.gets)].outcome)

C5_Witness ==
    /\ FetchDone
    /\ ~PageFetched
    /\ Len(task.gets) = 4
    /\ task.gets[1].outcome = GetRaises("ConnectionError", NoneResponse)
    /\ task.gets[2].outcome.kind = "Response"
    /\ task.gets[3].outcome = GetRaises("ReadTimeout", NoneResponse)
    /\ task.gets[4].url = "www.a.com"
    /\ task.result.message = "Error MissingSchema"

\* C6 as stated: once an attempt got a response of any status, no further GET
\* is issued.
C6_StopOnAnyResponse ==
    task.pc # "off" =>
        \A n \in 1..Len(task.gets) :
            task.gets[n].outcome.kind = "Response" => n = Len(task.gets)

\* C6 as amended: once an attempt got a response whose status is not an error
\* status (not in 400..599), no further GET is issued, the loop is left, and the
\* response the detector works on is that response.
C6_StopOnOkResponse ==
    task.pc # "off" =>
        \A n \in 1..Len(task.gets) :
            Truthy(task.gets[n].outcome) =>
                /\ n = Len(task.gets)
                /\ task.pc \in {"parse", "return", "done"}
                /\ task.response = task.gets[n].outcome
                /\ task.call # NoCall
                /\ task.call.page = task.gets[n].outcome.page
                /\ task.call.base_url = task.gets[n].outcome.url

C6_Witness ==
    /\ FetchDone
    /\ Len(task.gets) = 2
    /\ task.gets[1].outcome.kind = "Response"
    /\ Truthy(task.gets[2].outcome)
    /\ task.gets[2].mode = "headless"
    /\ task.i < Len(protocols)

\* C7: for each prefix, a headed attempt that gave no usable response (it
\* raised, timed out or returned an unusable response) is followed by a
\* headless request to the same URL before the next prefix is tried.
C7_HeadlessAfterFailedHeaded ==
    task.pc # "off" =>
        \A n \in 1..Len(task.gets) :
            (task.gets[n].mode = "headed" /\ Failed(task.gets[n]))
                => IF n < Len(task.gets)
                   THEN /\ task.gets[n + 1].mode = "headless"
                        /\ task.gets[n + 1].url = task.gets[n].url
                   ELSE task.pc = "headless"


-----------------------------------------------------------------------------
(* Claims about the dispatcher, checked under Spec *)

MapReturned == pc \in {"exportResults", "exportMetrics", "done", "ZeroDivisionError"}

\* the URLs fetchDomain can report for a domain
UrlsOf(domain) ==
    {domain} \cup {protocols[i] \o domain : i \in 1..Len(protocols)}

\* C1: the result list handed to the reports has the length of the input and
\* its entry n was produced from the domain at index n, in whatever order the
\* tasks finished and for every pool size.
C1_OrderPreserved ==
    MapReturned =>
        /\ Len(results) = Len(domains_list)
        /\ \A n \in 1..Len(results) :
               /\ results[n].url \in UrlsOf(domains_list[n])
               /\ results[n] = fetchDomain(domains_list[n], Behaviours[net[n]])

C1_Witness ==
    /\ pc = "exportResults"
    /\ Len(domains_list) = 2
    /\ domains_list[1] # domains_list[2]
    /\ finished = <<2, 1>>
    /\ net[1] # net[2]

\* no GET of the behaviour is answered by a response the code accepts
Unreachable(env) ==
    \A i \in 1..Len(protocols) : \A m \in 1..2 : ~Truthy(env.gets[i][m])

\* C4: every domain yields exactly one result and one row; no exception,
\* timeout, error status or missing logo of one domain aborts the run or
\* costs any domain its row, and an unreachable domain is a row with
\* success = false.
C4_OneResultPerDomain ==
    /\ pc # "raised"
    /\ MapReturned =>
           /\ Len(results) = Len(domains_list)
           /\ \A n \in 1..Len(results) :
                  /\ DOMAIN results[n] =
                         {"url", "logo_link", "success", "request_type", "message"}
                  /\ Unreachable(Behaviours[net[n]]) =>
                         /\ results[n].success = FALSE
                         /\ results[n].url = domains_list[n]
    /\ pc \in {"exportMetrics", "done", "ZeroDivisionError"} =>
           Len(rows) = Len(domains_list) + 1

C4_Witness ==
    /\ pc = "exportMetrics"
    /\ Len(domains_list) = 2
    /\ Unreachable(Behaviours[net[1]])
    /\ results[1].success = FALSE
    /\ results[2].success = TRUE
    /\ Len(rows) = 3

\* C10: with an empty result list the metrics are computed without a
\* division by zero and every percentage is reported as 0.
C10_EmptyRunReportsZero ==
    (pc \in {"done", "ZeroDivisionError"} /\ Len(results) = 0)
        => /\ pc = "done"
           /\ metrics.successful_percent = 0
           /\ metrics.failed_percent = 0
           /\ metrics.headed_percent = 0
           /\ metrics.headless_percent = 0
           /\ metrics.failed_req_percent = 0

\* the behaviours under which fetchDomain(d) finds no logo: no page was
\* fetched, or the detector ran and no strategy matched
NoLogoFound ==
    [d \in Domains |->
        {b \in 1..Len(Behaviours) :
            LET t == RunTask(StartFetch(d), Behaviours[b])
            IN  t.call = NoCall \/ t.call.source = "not_found"}]

\* C18: when no logo was found for a domain, because the fetch failed or
\* because no strategy matched, the logo_link of its result is the text None,
\* its success is false, and its row in the results file carries False and the
\* quoted text None in the logo_link field.
C18_AbsentLogoIsNoneText ==
    pc \in {"exportMetrics", "done"} =>
        \A n \in 1..Len(results) :
            net[n] \in NoLogoFound[domains_list[n]] =>
                /\ results[n].logo_link = "None"
                /\ results[n].success = FALSE
                /\ rows[n + 1] =
                       results[n].url \o ", False, \"None\", "
                           \o (IF results[n].request_type = None THEN "None"
                               ELSE results[n].request_type)
                           \o ", \"" \o results[n].message \o "\"\n"

C18_Witness ==
    /\ pc = "exportMetrics"
    /\ domains_list = <<"a.com", "b.org">>
    /\ net = <<1, 4>>
    /\ rows[2] = "a.com, False, \"None\", None, \"Error MissingSchema\"\n"
    /\ rows[3] = "https://www.b.org, False, \"None\", headless, \"None\"\n"

\* C22: for the result list of every run, the request-type counts of the
\* metrics partition the results: headed + headless + failed equals the total,
\* and every successful result has request type headed or headless, so that
\* none of them is counted as a failed request.
C22_RequestTypesPartition ==
    pc = "done" =>
        /\ metrics.total_requests = Len(results)
        /\ metrics.headed_requests + metrics.headless_requests
               + metrics.failed_req_count = metrics.total_requests
        /\ \A n \in 1..Len(results) :
               results[n].success =>
                   results[n].request_type \in {"headed", "headless"}
        /\ metrics.successful_requests
               <= metrics.headed_requests + metrics.headless_requests
        /\ metrics.failed_req_count
               = Cardinality({n \in 1..Len(results) :
                                 ~results[n].success
                                 /\ results[n].request_type \notin {"headed", "headless"}})

C22_Witness ==
    /\ pc = "done"
    /\ net = <<4, 6>>
    /\ metrics.total_requests = 2
    /\ metrics.headless_requests = 2
    /\ metrics.failed_req_count = 0
    /\ metrics.successful_requests = 1

-----------------------------------------------------------------------------
(* Claims about the metrics, checked under AggSpec *)

\* the positions of the results of one kind (successes or failures) that carry
\* message m
Positions(res, ok, m) ==
    {n \in 1..Len(res) : res[n].success = ok /\ res[n].message = m}

\* the position at which message m is first seen among the results of a kind
FirstSeen(res, ok, m) ==
    CHOOSE n \in Positions(res, ok, m) : \A k \in Positions(res, ok, m) : n <= k

\* lines is the frequency table of the messages of one kind: one line per
\* message with its number of occurrences, by descending count, lines of equal
\* count in the order in which their messages were first seen
OrderedTable(lines, res, ok) ==
    /\ {lines[n].message : n \in 1..Len(lines)} =
           {res[n].message : n \in {k \in 1..Len(res) : res[k].success = ok}}
    /\ \A i \in 1..Len(lines) :
           /\ lines[i].count = Cardinality(Positions(res, ok, lines[i].message))
           /\ \A j \in 1..Len(lines) :
                  i < j =>
                      /\ lines[i].message # lines[j].message
                      /\ lines[i].count >= lines[j].count
                      /\ lines[i].count = lines[j].count =>
                             FirstSeen(res, ok, lines[i].message)
                                 < FirstSeen(res, ok, lines[j].message)

\* C16: the success and the failure breakdown of the metrics are each ordered
\* by descending count, and lines of equal count stand in the order in which
\* their messages were first seen in the result list.
C16_BreakdownOrder ==
    pc = "done" =>
        /\ OrderedTable(metrics.success_breakdown, results, TRUE)
        /\ OrderedTable(metrics.failure_breakdown, results, FALSE)

C16_Witness ==
    /\ pc = "done"
    /\ Len(results) = 3
    /\ results[1].message = "Error MissingSchema"
    /\ results[2].message = "None"
    /\ results[3].message = "None"
    /\ Len(metrics.failure_breakdown) = 2
    /\ metrics.failure_breakdown[1].message = "None"
    /\ metrics.failure_breakdown[1].count = 2
    /\ metrics.failure_breakdown[2].message = "Error MissingSchema"

-----------------------------------------------------------------------------
(* Claims about parseLogoLink, checked under DetectSpec *)

\* some probe of the call was answered 200 with an image content type
CommonPathHit ==
    \E k \in 1..Len(det.answers) : ProbeMatches(det.answers[k])

\* the strategy that comes first in the order common_path, og_image,
\* img_logo, favicon among those that match
FirstStrategy ==
    LET page == det.call.page
        base == det.call.base_url
    IN  CASE CommonPathHit                  -> "common_path"
          [] og_image(page, base) # None    -> "og_image"
          [] img_logo(page, base) # None    -> "img_logo"
          [] favicon(page, base) # None     -> "favicon"
          [] OTHER                          -> "not_found"

\* the page has an <img id="logo"> with a src
HasLogoIdImg ==
    \E n \in 1..Len(det.call.page.imgs) :
        /\ det.call.page.imgs[n].id = "logo"
        /\ HasValue(det.call.page.imgs[n].src)

\* the page has some og:image meta tag with non-empty content
HasOgContent ==
    \E n \in 1..Len(det.call.page.og) : HasValue(det.call.page.og[n])

\* C8 as stated: a page with no matching common path that has an og:image
\* meta tag with non-empty content and an <img id="logo"> with a src yields
\* og_image, never img_logo.
C8_AnyOgTagWins ==
    (det.call.pc = "return" /\ ~CommonPathHit /\ HasOgContent /\ HasLogoIdImg)
        => det.call.source = "og_image"

\* C8: the strategies are evaluated in the order common_path, og_image,
\* img_logo, favicon and the first that matches is returned: no probe is sent
\* after a matching probe, and when no common path matches, a page that has
\* an <img id="logo"> with a src yields og_image exactly when its first
\* og:image meta tag has non-empty content, and img_logo otherwise: og:image
\* tags after the first are not consulted.
C8_FirstStrategyWins ==
    det.call.pc = "return" =>
        /\ det.call.source = FirstStrategy
        /\ (det.call.source = "not_found") = (det.call.logo_url = None)
        /\ \A k \in 1..Len(det.answers) :
               ProbeMatches(det.answers[k]) =>
                   /\ k = Len(det.answers)
                   /\ det.call.logo_url = det.call.heads[k]
        /\ ~CommonPathHit => Len(det.answers) = Len(common_logo_paths)
        /\ (~CommonPathHit /\ HasLogoIdImg) =>
               IF Len(det.call.page.og) > 0 /\ HasValue(det.call.page.og[1])
               THEN /\ det.call.source = "og_image"
                    /\ det.call.logo_url =
                           urljoin(det.call.base_url, det.call.page.og[1])
               ELSE /\ det.call.source = "img_logo"
                    /\ det.call.logo_url # None

C8_Witness ==
    /\ det.call.pc = "return"
    /\ ~CommonPathHit
    /\ Len(det.answers) = Len(common_logo_paths)
    /\ Len(det.call.page.og) > 0
    /\ HasValue(det.call.page.og[1])
    /\ HasLogoIdImg
    /\ det.call.source = "og_image"

\* probe k was answered with status 200 and an image content type
PathMatched(k) ==
    /\ det.answers[k].kind = "Response"
    /\ det.answers[k].status = 200
    /\ det.answers[k].ctype \in {"image/png", "image/svg+xml", "image/x-icon"}

\* C15: a probe that raises counts as a non-match of its path only: the next
\* path is probed, after the last path the tag strategies are evaluated; the
\* paths are probed in list order, the call returns common_path exactly when a
\* probe was answered 200 with an image content type, with the URL of the
\* first such path.
C15_ProbeErrorIsNonMatch ==
    /\ Len(det.call.heads) = Len(det.answers)
    /\ \A k \in 1..Len(det.answers) :
           /\ det.call.heads[k] =
                  urljoin(det.call.base_url, PathRef(common_logo_paths[k]))
           /\ det.answers[k].kind = "raise" =>
                  IF k < Len(common_logo_paths)
                  THEN \/ Len(det.answers) > k
                       \/ det.call.pc = "probe" /\ det.call.k = k + 1
                  ELSE det.call.pc \in {"tags", "return"}
           /\ PathMatched(k) =>
                  /\ k = Len(det.answers)
                  /\ det.call.pc = "return"
                  /\ det.call.source = "common_path"
                  /\ det.call.logo_url = det.call.heads[k]
    /\ det.call.pc = "return" =>
           /\ det.call.source = "common_path" <=>
                  \E k \in 1..Len(det.answers) : PathMatched(k)
           /\ det.call.source # "common_path" =>
                  /\ Len(det.answers) = Len(common_logo_paths)
                  /\ det.call.source = TagsStep(det.call).source
                  /\ det.call.logo_url = TagsStep(det.call).logo_url

C15_Witness ==
    /\ det.call.pc = "return"
    /\ Len(det.answers) = 3
    /\ det.answers[1].kind = "raise"
    /\ det.answers[2] = HeadResponse(200, "text/html")
    /\ PathMatched(3)
    /\ det.call.logo_url = "http://www.b.org/static/logo.svg"

\* the call returned and went past the common paths and the og:image tag
ImgStrategyReached ==
    /\ det.call.pc = "return"
    /\ ~CommonPathHit
    /\ og_image(det.call.page, det.call.base_url) = None

\* the <img> tags of the page, in document order, whose id is "logo" or one
\* of whose classes holds "logo" in any case
FlaggedImgs ==
    {n \in 1..Len(det.call.page.imgs) :
        \/ det.call.page.imgs[n].id = "logo"
        \/ \E c \in 1..Len(det.call.page.imgs[n].class) :
               Contains(Lower(det.call.page.imgs[n].class[c]), logo_chars)}

\* those of them that have a src with a value
FlaggedWithSrc ==
    {n \in FlaggedImgs : det.call.page.imgs[n].src.form \notin {"none", "empty"}}

\* C21 as stated: when the img_logo strategy is reached and gives the result,
\* the result is the src of the first flagged <img> in document order,
\* resolved against the base URL.
C21_FirstFlaggedImg ==
    (ImgStrategyReached /\ det.call.source = "img_logo") =>
        \E n \in FlaggedImgs :
            /\ \A m \in FlaggedImgs : n <= m
            /\ det.call.logo_url =
                   urljoin(det.call.base_url, det.call.page.imgs[n].src)

\* C21 as amended: when the img_logo strategy is reached, it gives the result
\* exactly when some flagged <img> has a src with a value, and the result is
\* the src of the first such <img> in document order, resolved against the
\* base URL; a flagged <img> without src, or with an empty one, is passed over.
C21_FirstFlaggedImgWithSrc ==
    ImgStrategyReached =>
        /\ det.call.source = "img_logo" <=> FlaggedWithSrc # {}
        /\ det.call.source = "img_logo" =>
               \E n \in FlaggedWithSrc :
                   /\ \A m \in FlaggedWithSrc : n <= m
                   /\ det.call.logo_url =
                          urljoin(det.call.base_url, det.call.page.imgs[n].src)

C21_Witness ==
    /\ ImgStrategyReached
    /\ det.call.source = "img_logo"
    /\ FlaggedImgs = {1, 2}
    /\ FlaggedWithSrc = {2}
    /\ det.call.logo_url = "http://www.b.org/en/second.png"

-----------------------------------------------------------------------------
(* Claims about the end of the run, checked under FairSpec *)

\* every task was handed out, has finished and has left its value
AllTasksDone ==
    /\ queue > Len(domains_list)
    /\ \A w \in 1..threads_num : worker[w] = 0
    /\ Len(finished) = Len(domains_list)
    /\ \A n \in 1..Len(domains_list) : slot[n] # NoResult

\* C11: map returns and the reports are written only after every task has
\* finished and left its result, no export step runs while a task is in
\* flight, and under fair scheduling the run reaches the export step.
C11_ExportAfterAllTasks ==
    /\ [](MapReturned => AllTasksDone)
    /\ <>(pc = "exportResults")

C11_Witness ==
    /\ pc = "exportResults"
    /\ Len(domains_list) = 2
    /\ threads_num = 2
    /\ finished = <<2, 1>>

\* the result list of a pool of one worker: the tasks run one after the other
\* in the order of the input, task n under the network behaviour nets[n]
RECURSIVE SerialResults(_, _)
SerialResults(domains, nets) ==
    IF domains = <<>> THEN <<>>
    ELSE <<fetchDomain(Head(domains), Behaviours[Head(nets)])>>
             \o SerialResults(Tail(domains), Tail(nets))

\* C12: for every pool size and every interleaving of the tasks, the result
\* list map returns, and the rows written from it, are the ones a pool of one
\* worker produces under the same per-domain network behaviour; the value of a
\* task depends on its own domain and its own attempts only.
C12_ConcurrencyIndependent ==
    /\ MapReturned => results = SerialResults(domains_list, net)
    /\ pc \in {"exportMetrics", "done"} =>
           rows = exportResults(SerialResults(domains_list, net))

C12_Witness ==
    /\ pc = "exportMetrics"
    /\ threads_num = 2
    /\ domains_list = <<"a.com", "b.org">>
    /\ finished = <<2, 1>>
    /\ net = <<3, 1>>

-----------------------------------------------------------------------------
(* Claims about the fields of the result, checked under FetchSpec *)

\* some attempt was answered by a response, of whatever status
ResponseObtained ==
    \E n \in 1..Len(task.gets) : task.gets[n].outcome.kind = "Response"

\* C13 as stated: request_type is none exactly when no attempt was answered by
\* a response, and when some attempt was answered the detector ran, so that
\* the page is present and request_type is headed or headless.
C13_NoneIffNoResponse ==
    FetchDone =>
        /\ task.result.request_type = None <=> ~ResponseObtained
        /\ ResponseObtained => task.call # NoCall

\* C13 as amended: request_type is none exactly when no attempt was answered
\* by a response whose status is not an error status (not in 400..599); when
\* one was, the detector ran on the page of that response and request_type is
\* the kind (headed or headless) of the attempt that it answered; otherwise
\* the detector did not run.
C13_NoneIffNoOkResponse ==
    FetchDone =>
        /\ task.result.request_type = None <=> ~PageFetched
        /\ task.call # NoCall <=> PageFetched
        /\ \A n \in 1..Len(task.gets) :
               Truthy(task.gets[n].outcome) =>
                   /\ task.result.request_type = task.gets[n].mode
                   /\ task.call.page = task.gets[n].outcome.page

C13_Witness ==
    /\ FetchDone
    /\ Len(task.gets) = 4
    /\ task.gets[1].outcome.kind = "Response"
    /\ task.gets[2].outcome.kind = "raise"
    /\ task.gets[3].outcome.kind = "Response"
    /\ Truthy(task.gets[4].outcome)
    /\ task.result.request_type = "headless"

\* the names parseLogoLink gives to its strategies
StrategyNames == {"common_path", "og_image", "img_logo", "favicon"}

\* the references the strategy named by source can take its candidate from:
\* the path probed last, the content of the first og:image tag, the src of a
\* flagged <img>, the href of an icon <link>
Candidates(call, source) ==
    CASE source = "common_path" ->
             {PathRef(common_logo_paths[Len(call.heads)])}
      [] source = "og_image" -> {call.page.og[n] : n \in {1} \cap DOMAIN call.page.og}
      [] source = "img_logo" ->
             {call.page.imgs[n].src : n \in {m \in DOMAIN call.page.imgs :
                                                LogoFlagged(call.page.imgs[m])}}
      [] source = "favicon" ->
             {call.page.links[n].href : n \in {m \in DOMAIN call.page.links :
                                                  IconRel(call.page.links[m])}}
      [] OTHER -> {}

\* the scenario of the specification: the page has og:image content
\* "/brand.png" and none of the common paths answered with an image
BrandScenario ==
    /\ FetchDone
    /\ PageFetched
    /\ task.call.page.og = <<PathRef("/brand.png")>>
    /\ task.call.source # "common_path"

\* C14: a result with success = true carries the name of the strategy that
\* produced the logo link as its message, and its logo link is that strategy's
\* candidate resolved against the URL of the fetched response; a page with
\* og:image content "/brand.png" and no working common path gives success,
\* scheme://host/brand.png, request type headed or headless, message og_image.
C14_SuccessNamesStrategy ==
    /\ (FetchDone /\ task.result.success) =>
           /\ PageFetched
           /\ task.result.message \in StrategyNames
           /\ task.result.message = task.call.source
           /\ \E ref \in Candidates(task.call, task.result.message) :
                  /\ HasValue(ref)
                  /\ task.result.logo_link = urljoin(task.response.url, ref)
    /\ BrandScenario =>
           /\ task.result.success
           /\ task.result.message = "og_image"
           /\ task.result.logo_link =
                  task.response.url.scheme \o "://" \o task.response.url.netloc
                      \o "/brand.png"
           /\ task.result.request_type \in {"headed", "headless"}

C14_Witness ==
    /\ BrandScenario
    /\ Len(task.call.heads) = Len(common_logo_paths)
    /\ task.response.url.dir = "/en/"
    /\ task.result.logo_link = "http://www.b.org/brand.png"
    /\ task.result.request_type = "headless"

\* C19: the url of the result is prefix + domain of the attempt whose response
\* was accepted when a page was fetched, and the bare domain when every
\* attempt failed; it is never the URL of a prefix whose attempts all failed.
C19_UrlOfSuccessfulAttempt ==
    FetchDone =>
        /\ PageFetched =>
               \E n \in 1..Len(task.gets) :
                   /\ Truthy(task.gets[n].outcome)
                   /\ task.result.url = task.gets[n].url
                   /\ \E i \in 1..Len(protocols) :
                          task.result.url = protocols[i] \o task.domain
        /\ ~PageFetched => task.result.url = task.domain
        /\ \A i \in 1..Len(protocols) :
               (\A n \in 1..Len(task.gets) :
                    task.gets[n].url = protocols[i] \o task.domain
                        => Failed(task.gets[n]))
                   => task.result.url # protocols[i] \o task.domain

C19_Witness ==
    /\ FetchDone
    /\ task.domain = "b.org"
    /\ Len(task.gets) = 3
    /\ task.gets[1].outcome.kind = "Response"
    /\ task.gets[2].outcome.kind = "raise"
    /\ task.gets[3].mode = "headed"
    /\ task.result.url = "http://www.b.org"

\* attempt n is a headless GET that follows at once a headed GET to the same
\* URL which did not raise and returned a response the code does not accept
AfterUnusableHeaded(n) ==
    /\ n > 1
    /\ task.gets[n].mode = "headless"
    /\ task.gets[n - 1].mode = "headed"
    /\ task.gets[n - 1].url = task.gets[n].url
    /\ task.gets[n - 1].outcome.kind = "Response"
    /\ task.gets[n - 1].outcome.status >= 400
    /\ task.gets[n - 1].outcome.status < 600

\* C23: a result has request type headless only if the headed GET to the URL
\* it reports returned, without raising, a response that was not usable and
\* the headless GET to that URL came right after it and was accepted; and no
\* headless GET is ever issued to a URL without such a headed GET before it.
C23_HeadlessOnlyAfterUnusableHeaded ==
    /\ \A n \in 1..Len(task.gets) :
           task.gets[n].mode = "headless" => AfterUnusableHeaded(n)
    /\ task.pc = "headless" =>
           /\ task.gets # <<>>
           /\ task.gets[Len(task.gets)].mode = "headed"
           /\ task.gets[Len(task.gets)].url = task.url
           /\ task.gets[Len(task.gets)].outcome.kind = "Response"
    /\ (FetchDone /\ task.result.request_type = "headless") =>
           /\ AfterUnusableHeaded(Len(task.gets))
           /\ task.gets[Len(task.gets)].url = task.result.url
           /\ Truthy(task.gets[Len(task.gets)].outcome)

C23_Witness ==
    /\ FetchDone
    /\ task.result.request_type = "headless"
    /\ Len(task.gets) = 3
    /\ task.gets[1].outcome.kind = "raise"
    /\ task.gets[2].outcome.kind = "Response"
    /\ task.result.url = "http://www.a.com"

-----------------------------------------------------------------------------
(* Claims about the attempts of one task, checked under FairFetchSpec *)

\* the place in protocols of the prefix of attempt n, 0 when its URL is not
\* prefix + domain
PrefixOf(n) ==
    LET at == {i \in 1..Len(protocols) :
                  task.gets[n].url = protocols[i] \o task.domain}
    IN  IF at = {} THEN 0 ELSE CHOOSE i \in at : TRUE

\* the GETs issued so far: the prefixes in list order starting with the first
\* and without a gap, one headed GET per prefix, at most one headless GET
\* after it to the same URL
BoundedGets ==
    /\ Len(task.gets) <= 2 * Len(protocols)
    /\ \A n \in 1..Len(task.gets) :
           /\ PrefixOf(n) # 0
           /\ task.gets[n].mode \in {"headed", "headless"}
           /\ task.gets[n].mode = "headed" =>
                  IF n = 1 THEN PrefixOf(n) = 1
                  ELSE PrefixOf(n) = PrefixOf(n - 1) + 1
           /\ task.gets[n].mode = "headless" =>
                  /\ n > 1
                  /\ task.gets[n - 1].mode = "headed"
                  /\ PrefixOf(n) = PrefixOf(n - 1)
           /\ \A m \in 1..Len(task.gets) :
                  (m # n /\ PrefixOf(m) = PrefixOf(n))
                      => task.gets[m].mode # task.gets[n].mode

\* the HEAD probes issued so far: none before the GETs are over, then one per
\* common path, in list order
BoundedHeads ==
    task.call # NoCall =>
        /\ task.pc \in {"parse", "return", "done"}
        /\ Truthy(task.gets[Len(task.gets)].outcome)
        /\ Len(task.call.heads) <= Len(common_logo_paths)
        /\ \A k \in 1..Len(task.call.heads) :
               task.call.heads[k] =
                   urljoin(task.call.base_url, PathRef(common_logo_paths[k]))

\* C20: a task issues a bounded number of network calls: the prefixes in list
\* order, each at most once, at most one headed and one headless GET per
\* prefix with the headed one first, then at most one HEAD per common path;
\* and, every network call returning or timing out, the task eventually
\* returns its result.
C20_BoundedAttemptsAndReturn ==
    /\ [](BoundedGets /\ BoundedHeads)
    /\ <>(FetchDone /\ task.result # NoResult)

C20_Witness ==
    /\ FetchDone
    /\ Len(task.gets) = 4
    /\ task.call # NoCall
    /\ Len(task.call.heads) = Len(common_logo_paths)
    /\ task.call.source = "not_found"
    /\ task.result.success = FALSE

====
